---- MODULE Spec2Model ----
(***************************************************************************)
(* Model of src/main.go: the Lambda handler that fetches an object from    *)
(* S3, resizes it when it is wider than the requested width, encodes it as *)
(* JPEG and answers with an API Gateway proxy response.                    *)
(*                                                                         *)
(* Go strings that the code inspects (the request path, the query values)  *)
(* are sequences of one-character strings; strings the code only copies    *)
(* are TLA+ strings.                                                       *)
(***************************************************************************)
EXTENDS Integers, Sequences, FiniteSets, TLC

VARIABLES
    pc,          \* position of the process: idle, or a line of handler
    invocations, \* number of events lambda.Start has handed to handler
    req,         \* events.APIGatewayProxyRequest of the current invocation
    store,       \* what S3 answers to GetObject for this request
    config,      \* RequestConfig (main.go:100)
    getInputs,   \* the GetObjectInput of every GetObject call issued
    stream,      \* resp.Body: "none", "open" or "closed"
    closes,      \* number of resp.Body.Close() calls
    deferred,    \* TRUE once `defer resp.Body.Close()` was executed
    srcImg,      \* image decoded by imaging.Decode
    dstImg,      \* image handed to imaging.Encode
    resized,     \* TRUE when imaging.Resize produced dstImg
    resize,      \* the string resizer returns
    trace,       \* steps of the current invocation, in execution order
    out          \* the (response, error) pairs handler returned

vars == <<pc, invocations, req, store, config, getInputs, stream, closes,
          deferred, srcImg, dstImg, resized, resize, trace, out>>

----------------------------------------------------------------------------
(* Bounds of the model *)

MaxInvocations == 2

----------------------------------------------------------------------------
(* Go strings as character sequences *)

S_images_story_io ==
    <<"i","m","a","g","e","s",".","s","t","o","r","y",".","i","o">>
S_slash_images_story_io == <<"/">> \o S_images_story_io
S_story == <<"s","t","o","r","y">>
S_not_allowed == <<"/","n","o","t","-","a","l","l","o","w","e","d">>
S_comma == <<",">>

\* strings.Contains(s, substr)
Contains(s, substr) ==
    \E i \in 0..Len(s) :
        /\ i + Len(substr) <= Len(s)
        /\ SubSeq(s, i + 1, i + Len(substr)) = substr

\* strings.Join(elems, sep)
RECURSIVE Join(_, _)
Join(elems, sep) ==
    IF elems = <<>> THEN <<>>
    ELSE IF Len(elems) = 1 THEN elems[1]
    ELSE elems[1] \o sep \o Join(Tail(elems), sep)

Digits == {"0","1","2","3","4","5","6","7","8","9"}

DigitVal(c) ==
    CASE c = "0" -> 0 [] c = "1" -> 1 [] c = "2" -> 2 [] c = "3" -> 3
      [] c = "4" -> 4 [] c = "5" -> 5 [] c = "6" -> 6 [] c = "7" -> 7
      [] c = "8" -> 8 [] c = "9" -> 9

RECURSIVE DecimalValue(_)
DecimalValue(ds) ==
    IF ds = <<>> THEN 0
    ELSE 10 * DecimalValue(SubSeq(ds, 1, Len(ds) - 1)) + DigitVal(ds[Len(ds)])

\* strconv.Atoi, value only (the handler drops the error): strings shorter
\* than 19 characters take the fast path, which answers 0 for the empty
\* string, a lone sign or any non-digit, and the signed decimal otherwise.
Atoi(s) ==
    LET s0 == IF s # <<>> /\ s[1] \in {"-", "+"} THEN Tail(s) ELSE s
    IN  IF s = <<>> \/ s0 = <<>> THEN 0
        ELSE IF \E i \in 1..Len(s0) : s0[i] \notin Digits THEN 0
        ELSE IF s[1] = "-" THEN 0 - DecimalValue(s0)
        ELSE DecimalValue(s0)

\* req.QueryStringParameters[k]: a missing key reads as ""
QueryGet(q, k) == IF k \in DOMAIN q THEN q[k] ELSE <<>>

----------------------------------------------------------------------------
(* Program constants *)

bucketName == "s3.images.story.io"
allowedHosts == <<S_images_story_io>>

StatusOK == 200
StatusBadRequest == 400
StatusNotFound == 404
StatusInternalServerError == 500

\* image/jpeg refuses an image whose width or height reaches 1<<16
JpegLimit == 65536

\* http.StatusText
StatusText(code) ==
    CASE code = 200 -> "OK"
      [] code = 400 -> "Bad Request"
      [] code = 404 -> "Not Found"
      [] code = 500 -> "Internal Server Error"
      [] OTHER -> ""

----------------------------------------------------------------------------
(* Errors *)

\* the nil error; aws tells whether the value implements awserr.Error, and
\* msg is then its Code()
NilErr == [isNil |-> TRUE, aws |-> FALSE, msg |-> "", cause |-> ""]
AwsErr(code) == [isNil |-> FALSE, aws |-> TRUE, msg |-> code, cause |-> ""]
PlainErr(text) == [isNil |-> FALSE, aws |-> FALSE, msg |-> text, cause |-> ""]

\* errors.WithMessage of github.com/pkg/errors: nil stays nil
WithMessage(err, message) ==
    IF err.isNil THEN NilErr
    ELSE [isNil |-> FALSE, aws |-> FALSE, msg |-> message, cause |-> err.msg]

----------------------------------------------------------------------------
(* Images *)

NoImage == [w |-> -1, h |-> -1]
Img(w, h) == [w |-> w, h |-> h]

\* floor(x + 0.5) of x = num / den, at least 1 (imaging.Resize)
RoundMin1(num, den) ==
    LET r == (2 * num + den) \div (2 * den)
    IN  IF r < 1 THEN 1 ELSE r

\* imaging.Resize(img, width, height, filter): the bounds of the result
Resize(img, width, height) ==
    IF width < 0 \/ height < 0 THEN Img(0, 0)
    ELSE IF width = 0 /\ height = 0 THEN Img(0, 0)
    ELSE IF img.w <= 0 \/ img.h <= 0 THEN Img(0, 0)
    ELSE LET dstW == IF width = 0 THEN RoundMin1(height * img.w, img.h)
                     ELSE width
             dstH == IF height = 0 THEN RoundMin1(dstW * img.h, img.w)
                     ELSE height
         IN  Img(dstW, dstH)

\* imaging.Encode(&buf, img, imaging.JPEG) succeeds
Encodable(img) == img.w < JpegLimit /\ img.h < JpegLimit

\* the bytes imaging.Encode writes, then base64.StdEncoding.EncodeToString
JpegBytes(img) == [format |-> "JPEG", w |-> img.w, h |-> img.h]
Base64(bytes) == [base64 |-> bytes]

----------------------------------------------------------------------------
(* Pointers of the GetObjectOutput: <<>> is nil, <<v>> points to v *)

Nil == <<>>
Ptr(v) == <<v>>
Deref(p) == p[1]

\* time.Time.Format(http.TimeFormat) of the instants the model stores
HttpDate(t) ==
    CASE t = 0 -> "Thu, 01 Jan 1970 00:00:00 GMT"
      [] OTHER -> "Fri, 02 Jan 1970 00:00:00 GMT"

----------------------------------------------------------------------------
(* Inputs: requests and the state of the storage *)

Paths == {S_slash_images_story_io, S_images_story_io, S_story, <<>>,
          S_not_allowed}

QueryValues == { <<"a","b","c">>, <<"0">>, <<"-","5">>, <<"1","0","0">>,
                 <<"8","0">>, <<"6","5","5","3","6">> }

Queries == UNION { [D -> QueryValues] : D \in SUBSET {"width", "height"} }

Requests == [Path : Paths, QueryStringParameters : Queries]

Images == {Img(50, 40), Img(100, 60), Img(500, 400), Img(3, 500),
           Img(50, 65536)}

Bodies == {[decodable |-> FALSE, img |-> NoImage]}
          \cup {[decodable |-> TRUE, img |-> i] : i \in Images}

StorageErrors == {AwsErr("NoSuchBucket"), AwsErr("NoSuchKey"),
                  AwsErr("AccessDenied"), PlainErr("connection reset")}

NoBody == [decodable |-> FALSE, img |-> NoImage]

\* what svc.GetObject returns: (resp, err)
Stores ==
    {[err |-> e, Body |-> NoBody, CacheControl |-> Nil, LastModified |-> Nil,
      ETag |-> Nil] : e \in StorageErrors}
    \cup
    [err : {NilErr}, Body : Bodies,
     CacheControl : {Nil, Ptr("max-age=31536000")},
     LastModified : {Nil, Ptr(0)},
     ETag : {Nil, Ptr("\"9b2cf535f27731c974343645a3985328\"")}]

----------------------------------------------------------------------------
(* handler and resizer *)

NoConfig == [Width |-> 0, Height |-> 0, Bucket |-> "", ObjectKey |-> <<>>]
NoRequest == [Path |-> <<>>, QueryStringParameters |-> <<>>]
NoStore == [err |-> NilErr, Body |-> NoBody, CacheControl |-> Nil,
            LastModified |-> Nil, ETag |-> Nil]

\* errResponse(code)
errResponse(code) ==
    [StatusCode |-> code,
     Headers |-> ("Content-Type" :> "text/plain"),
     Body |-> StatusText(code),
     IsBase64Encoded |-> FALSE]

\* the host check of main.go:91
HostAllowed(objectKey) == Contains(Join(allowedHosts, S_comma), objectKey)

\* the dimension check written with < for <=
InvalidDimensions_Strict(width, height) == width < 0 /\ height < 0

\* the dimension check of main.go:96
InvalidDimensions(width, height) == width <= 0 /\ height <= 0

\* the config built with the leading character of the path cut off
NewConfig_TrimmedKey(width, height, objectKey) ==
    [Width |-> width, Height |-> height, Bucket |-> bucketName,
     ObjectKey |-> IF objectKey = <<>> THEN objectKey ELSE Tail(objectKey)]

\* RequestConfig{...} of main.go:100
NewConfig(width, height, objectKey) ==
    [Width |-> width, Height |-> height, Bucket |-> bucketName,
     ObjectKey |-> objectKey]

\* the switch without the fallthrough of the NoSuchBucket case
IsNotFound_NoFallthrough(code) == code = "NoSuchKey"

\* the switch on awsErr.Code() of main.go:115
IsNotFound(code) == code \in {"NoSuchBucket", "NoSuchKey"}

\* the width comparison written with < for <=
PassThrough_Strict(img, cfg) == img.w < cfg.Width

\* main.go:63, b.Max.X <= config.Width
PassThrough(img, cfg) == img.w <= cfg.Width

\* the resize called with the width alone, the height left to the library
ResizeCall_WidthOnly(img, cfg) == Resize(img, cfg.Width, 0)

\* main.go:74
ResizeCall(img, cfg) == Resize(img, cfg.Width, cfg.Height)

\* the deferred calls run when handler returns or panics
RunDeferred ==
    IF deferred
    THEN /\ stream' = "closed"
         /\ closes' = closes + 1
    ELSE UNCHANGED <<stream, closes>>

\* return resp, err
Return(resp, err) ==
    /\ out' = Append(out, [resp |-> resp, err |-> err])
    /\ pc' = "done"
    /\ RunDeferred

\* a panic that skips the deferred calls, as a Close() written before the
\* final return instead of deferred would
Panic_NoDeferred ==
    /\ pc' = "panicked"
    /\ out' = out
    /\ UNCHANGED <<stream, closes>>

\* a run-time panic inside handler: nothing is returned
Panic ==
    /\ pc' = "panicked"
    /\ out' = out
    /\ RunDeferred

Init ==
    /\ pc = "idle"
    /\ invocations = 0
    /\ req = NoRequest
    /\ store = NoStore
    /\ config = NoConfig
    /\ getInputs = <<>>
    /\ stream = "none"
    /\ closes = 0
    /\ deferred = FALSE
    /\ srcImg = NoImage
    /\ dstImg = NoImage
    /\ resized = FALSE
    /\ resize = ""
    /\ trace = <<>>
    /\ out = <<>>

\* lambda.Start hands the next event to handler
Invoke ==
    /\ pc = "idle"
    /\ invocations < MaxInvocations
    /\ \E r \in Requests, s \in Stores :
          /\ req' = r
          /\ store' = s
    /\ invocations' = invocations + 1
    /\ pc' = "validate"
    /\ UNCHANGED <<config, getInputs, stream, closes, deferred, srcImg,
                   dstImg, resized, resize, trace, out>>

\* main.go:86-105
Validate ==
    /\ pc = "validate"
    /\ trace' = Append(trace, "validate")
    /\ LET width == Atoi(QueryGet(req.QueryStringParameters, "width"))
           height == Atoi(QueryGet(req.QueryStringParameters, "height"))
           objectKey == req.Path
       IN  IF ~HostAllowed(objectKey)
           THEN /\ Return(errResponse(StatusBadRequest),
                          WithMessage(NilErr, "NOT_ALLOWED_HOST"))
                /\ UNCHANGED config
           ELSE IF InvalidDimensions(width, height)
           THEN /\ Return(errResponse(StatusBadRequest),
                          WithMessage(NilErr, "WIDTH AND HEIGHT INVALID DATA"))
                /\ UNCHANGED config
           ELSE /\ config' = NewConfig(width, height, objectKey)
                /\ pc' = "fetch"
                /\ UNCHANGED <<out, stream, closes>>
    /\ UNCHANGED <<invocations, req, store, getInputs, deferred, srcImg,
                   dstImg, resized, resize>>

\* main.go:108-126
Fetch ==
    /\ pc = "fetch"
    /\ trace' = Append(trace, "fetch")
    /\ getInputs' = Append(getInputs, [Bucket |-> config.Bucket,
                                       Key |-> config.ObjectKey])
    /\ IF ~store.err.isNil
       THEN /\ IF store.err.aws /\ IsNotFound(store.err.msg)
               THEN Return(errResponse(StatusNotFound), NilErr)
               ELSE Return(errResponse(StatusInternalServerError),
                           WithMessage(store.err,
                                       "WIDTH AND HEIGHT INVALID DATA"))
            /\ UNCHANGED deferred
       ELSE /\ stream' = "open"
            /\ deferred' = TRUE
            /\ pc' = "decode"
            /\ UNCHANGED <<out, closes>>
    /\ UNCHANGED <<invocations, req, store, config, srcImg, dstImg, resized,
                   resize>>

\* main.go:129 with 55-58, and the error return of 130-132
Decode ==
    /\ pc = "decode"
    /\ trace' = Append(trace, "decode")
    /\ IF ~store.Body.decodable
       THEN /\ Return(errResponse(StatusInternalServerError),
                      WithMessage(PlainErr("image: unknown format"),
                                  "RESIZE PARSING ERROR"))
            /\ UNCHANGED srcImg
       ELSE /\ srcImg' = store.Body.img
            /\ pc' = "resize"
            /\ UNCHANGED <<out, stream, closes>>
    /\ UNCHANGED <<invocations, req, store, config, getInputs, deferred,
                   dstImg, resized, resize>>

\* main.go:61-63 and 74
ResizeOrPass ==
    /\ pc = "resize"
    /\ trace' = Append(trace, "resize")
    /\ IF PassThrough(srcImg, config)
       THEN /\ dstImg' = srcImg
            /\ resized' = FALSE
       ELSE /\ dstImg' = ResizeCall(srcImg, config)
            /\ resized' = TRUE
    /\ pc' = "encode"
    /\ UNCHANGED <<invocations, req, store, config, getInputs, stream, closes,
                   deferred, srcImg, resize, out>>

\* main.go:64-70 and 76-82, and the error return of 130-132
Encode ==
    /\ pc = "encode"
    /\ trace' = Append(trace, "encode")
    /\ IF ~Encodable(dstImg)
       THEN /\ Return(errResponse(StatusInternalServerError),
                      WithMessage(PlainErr("jpeg: image is too large to encode"),
                                  "RESIZE PARSING ERROR"))
            /\ UNCHANGED resize
       ELSE /\ resize' = Base64(JpegBytes(dstImg))
            /\ pc' = "respond"
            /\ UNCHANGED <<out, stream, closes>>
    /\ UNCHANGED <<invocations, req, store, config, getInputs, deferred,
                   srcImg, dstImg, resized>>

\* main.go:134-144
Respond ==
    /\ pc = "respond"
    /\ trace' = Append(trace, "respond")
    /\ IF store.CacheControl = Nil \/ store.LastModified = Nil
          \/ store.ETag = Nil
       THEN Panic
       ELSE Return([StatusCode |-> StatusOK,
                    Headers |-> ("Content-Type" :> "image/jpeg")
                                @@ ("Cache-Control" :> Deref(store.CacheControl))
                                @@ ("Last-Modified" :>
                                        HttpDate(Deref(store.LastModified)))
                                @@ ("ETag" :> Deref(store.ETag)),
                    Body |-> resize,
                    IsBase64Encoded |-> TRUE],
                   NilErr)
    /\ UNCHANGED <<invocations, req, store, config, getInputs, deferred,
                   srcImg, dstImg, resized, resize>>

\* main.go:147-149: lambda.Start takes the returned pair and waits for the
\* next event; nothing of the finished invocation is kept
Finish ==
    /\ pc = "done"
    /\ invocations < MaxInvocations
    /\ pc' = "idle"
    /\ req' = NoRequest
    /\ store' = NoStore
    /\ config' = NoConfig
    /\ getInputs' = <<>>
    /\ stream' = "none"
    /\ closes' = 0
    /\ deferred' = FALSE
    /\ srcImg' = NoImage
    /\ dstImg' = NoImage
    /\ resized' = FALSE
    /\ resize' = ""
    /\ trace' = <<>>
    /\ out' = <<>>
    /\ UNCHANGED invocations

Next ==
    \/ Invoke
    \/ Validate
    \/ Fetch
    \/ Decode
    \/ ResizeOrPass
    \/ Encode
    \/ Respond
    \/ Finish

Spec == Init /\ [][Next]_vars

----------------------------------------------------------------------------
(* Vocabulary of the properties *)

ParsedWidth == Atoi(QueryGet(req.QueryStringParameters, "width"))
ParsedHeight == Atoi(QueryGet(req.QueryStringParameters, "height"))

Finished == pc \in {"done", "panicked"}
Returned == out # <<>>
Status == out[1].resp.StatusCode
Succeeded == pc = "done" /\ Returned /\ Status = 200
OutputDims == Img(out[1].resp.Body.base64.w, out[1].resp.Body.base64.h)
FetchIssued == getInputs # <<>>
ListedHost == \E i \in 1..Len(allowedHosts) : allowedHosts[i] = req.Path
FullMetadata ==
    store.CacheControl # Nil /\ store.LastModified # Nil /\ store.ETag # Nil
InputImage == store.Body.img

\* h is num/den rounded half up, and 1 when that is below 1
IsRoundedMin1(h, num, den) ==
    \/ /\ h >= 1
       /\ 2 * num - den < 2 * h * den
       /\ 2 * h * den <= 2 * num + den
    \/ /\ h = 1
       /\ 2 * num < den

Order == <<"validate", "fetch", "decode", "resize", "encode", "respond">>

----------------------------------------------------------------------------
(* C1 *)

\* C1: a request whose path is not exactly an allow-listed entry is answered
\* with status 400 and GetObject is never issued for it.
C1_OutsideAllowListRejected ==
    (pc # "idle" /\ ~ListedHost) =>
        /\ ~FetchIssued
        /\ Returned => Status = 400

----------------------------------------------------------------------------
(* C2 *)

\* C2: when the parsed width and the parsed height are both <= 0 (missing and
\* non-numeric parameters parse to 0), handler returns status 400, whatever
\* the path and the storage are.
C2_InvalidDimensionsRejected ==
    /\ (pc \notin {"idle", "validate"} /\ ParsedWidth <= 0 /\ ParsedHeight <= 0)
         => /\ pc = "done"
            /\ Len(out) = 1
            /\ Status = 400
            /\ ~FetchIssued
    /\ \A k \in {"width", "height"} :
         (pc # "idle" /\ (k \notin DOMAIN req.QueryStringParameters
                          \/ req.QueryStringParameters[k] = <<"a","b","c">>))
         => IF k = "width" THEN ParsedWidth = 0 ELSE ParsedHeight = 0

\* C2 witness: an allow-listed path whose object the storage would serve,
\* rejected for its dimensions alone.
C2_Witness ==
    /\ pc = "done"
    /\ req.Path = S_images_story_io
    /\ "width" \notin DOMAIN req.QueryStringParameters
    /\ QueryGet(req.QueryStringParameters, "height") = <<"-","5">>
    /\ store.err.isNil /\ store.Body.decodable /\ FullMetadata
    /\ Status = 400

----------------------------------------------------------------------------
(* C3 *)

----------------------------------------------------------------------------
(* C4 *)

\* C4: when the decoded image is not wider than the requested width it is
\* never resized: the output has the input image's dimensions and is JPEG.
C4_PassThroughUnchanged ==
    /\ (pc \in {"encode", "respond", "done", "panicked"} /\ dstImg # NoImage
          /\ InputImage.w <= ParsedWidth)
         => ~resized /\ dstImg = InputImage
    /\ (Succeeded /\ InputImage.w <= ParsedWidth)
         => /\ OutputDims = InputImage
            /\ out[1].resp.Body.base64.format = "JPEG"
            /\ out[1].resp.Headers["Content-Type"] = "image/jpeg"

\* C4 witness: an image exactly as wide as requested, with another height
\* requested, comes back with its own dimensions.
C4_Witness ==
    /\ Succeeded
    /\ InputImage = Img(100, 60)
    /\ ParsedWidth = 100 /\ ParsedHeight = 80
    /\ OutputDims = Img(100, 60)

----------------------------------------------------------------------------
(* C5 *)

\* C5: path "/images.story.io" with positive dimensions passes the allow-list
\* check and reaches the storage fetch; width=100, height=80 and a 500px-wide
\* object give 200 with a 100x80 JPEG, width=100 and a 50px-wide object give
\* 200 with width 50.
C5_Scenarios ==
    (/\ Finished
     /\ req.Path = S_slash_images_story_io
     /\ ParsedWidth = 100
     /\ ParsedHeight \in {0, 80}
     /\ store.err.isNil /\ store.Body.decodable /\ FullMetadata
     /\ InputImage.w \in {50, 500})
    => /\ FetchIssued
       /\ Succeeded
       /\ (InputImage.w = 500 /\ ParsedHeight = 80) => OutputDims = Img(100, 80)
       /\ InputImage.w = 50 => OutputDims.w = 50

----------------------------------------------------------------------------
(* C6 *)

\* C6: every failure ends the handler with a response envelope only; handler
\* never returns a non-nil error to the platform.
C6_NoErrorReturned ==
    /\ pc = "done" => Len(out) = 1
    /\ Returned => out[1].err.isNil

----------------------------------------------------------------------------
(* C7 *)

\* C7: NoSuchBucket or NoSuchKey give 404, any other storage fault 500, a
\* decode or encode failure 500; every error response carries the standard
\* phrase of its status as body, Content-Type text/plain, and is not marked
\* base64-encoded.
C7_FailureTable ==
    /\ (pc = "done" /\ FetchIssued) =>
          /\ (store.err.aws /\ store.err.msg \in {"NoSuchBucket", "NoSuchKey"})
                => Status = 404
          /\ (~store.err.isNil
               /\ ~(store.err.aws
                     /\ store.err.msg \in {"NoSuchBucket", "NoSuchKey"}))
                => Status = 500
          /\ (store.err.isNil /\ ~store.Body.decodable) => Status = 500
          /\ (dstImg # NoImage /\ (dstImg.w >= 65536 \/ dstImg.h >= 65536))
                => Status = 500
    /\ (Returned /\ Status # 200) =>
          /\ Status \in {400, 404, 500}
          /\ Status = 400 => out[1].resp.Body = "Bad Request"
          /\ Status = 404 => out[1].resp.Body = "Not Found"
          /\ Status = 500 => out[1].resp.Body = "Internal Server Error"
          /\ DOMAIN out[1].resp.Headers = {"Content-Type"}
          /\ out[1].resp.Headers["Content-Type"] = "text/plain"
          /\ ~out[1].resp.IsBase64Encoded

\* C7 witness: a missing bucket answered with 404 Not Found.
C7_Witness ==
    /\ pc = "done"
    /\ store.err = AwsErr("NoSuchBucket")
    /\ Status = 404
    /\ out[1].resp.Body = "Not Found"

----------------------------------------------------------------------------
(* C8 *)

\* C8: once the fetch has yielded a stream, the stream is closed (once) when
\* handler exits, on the success, decode-failure, encode-failure and panic
\* paths alike; a stream that was never opened is never closed.
C8_StreamReleased ==
    /\ closes <= 1
    /\ stream = "none" => closes = 0
    /\ stream = "closed" <=> closes = 1
    /\ (FetchIssued /\ store.err.isNil) => stream # "none"
    /\ (Finished /\ FetchIssued /\ store.err.isNil) => stream = "closed"
    /\ (Finished /\ ~(FetchIssued /\ store.err.isNil)) => stream = "none"

\* C8 witness: the response could not be built (absent metadata) and the
\* stream was closed all the same.
C8_Witness ==
    /\ pc = "panicked"
    /\ stream = "closed"
    /\ closes = 1

----------------------------------------------------------------------------
(* C9 *)

\* C9: every request ends with exactly one response envelope; when fetch,
\* decode and encode succeed it is the 200 envelope with Content-Type
\* image/jpeg, the base64 mark and the Cache-Control, Last-Modified and ETag
\* headers, also for an object whose metadata is absent.
C9_OneEnvelope ==
    /\ pc # "panicked"
    /\ pc = "done" => Len(out) = 1
    /\ (pc = "done" /\ "encode" \in {trace[i] : i \in 1..Len(trace)}
          /\ dstImg.w < 65536 /\ dstImg.h < 65536)
         => /\ Status = 200
            /\ out[1].resp.IsBase64Encoded
            /\ DOMAIN out[1].resp.Headers =
                  {"Content-Type", "Cache-Control", "Last-Modified", "ETag"}
            /\ out[1].resp.Headers["Content-Type"] = "image/jpeg"

----------------------------------------------------------------------------
(* C10 *)

\* C10: the steps of one invocation run in the order validate, fetch, decode,
\* resize-or-pass-through, encode, respond; GetObject is issued at most once
\* per request and only after both validation checks passed, so that then
\* width > 0 or height > 0, the bucket is the configured name and the key is
\* the request path.
C10_OrderAndSingleFetch ==
    /\ Len(trace) <= Len(Order)
    /\ \A i \in 1..Len(trace) : trace[i] = Order[i]
    /\ Len(getInputs) <= 1
    /\ FetchIssued =>
          /\ Len(trace) >= 2
          /\ Contains(S_images_story_io, req.Path)
          /\ ParsedWidth > 0 \/ ParsedHeight > 0
          /\ getInputs[1].Bucket = "s3.images.story.io"
          /\ getInputs[1].Key = req.Path
    /\ (pc = "done" /\ Status # 200) => trace # Order

\* C10 witness: a request that went through all six steps with one fetch.
C10_Witness ==
    /\ pc = "done"
    /\ trace = Order
    /\ Len(getInputs) = 1
    /\ Status = 200

====
